---- MODULE Spec2Model ----
(***************************************************************************)
(* Model of the potential-energy-surface scanner of quantum-chemistry-pes: *)
(* scan_pes (pes_scan.py) looping over geometry points, calling a molecule *)
(* builder (molecules.py), run_vqe (vqe_runner.py) and exact_energy        *)
(* (exact_solver.py).  The external libraries (electronic-structure        *)
(* driver, estimator, COBYLA, dense eigensolver) are deterministic         *)
(* functions over small integer grids; each of them may also raise.        *)
(* Energies are integers (fixed-point), angles are integers in -3..3.      *)
(***************************************************************************)
EXTENDS Integers, Sequences, FiniteSets, TLC

\* ---------------------------------------------------------------- bounds
MaxPoints == 3          \* longest geometry sequence handed to scan_pes
MaxIter   == 3          \* largest maxiter handed to scan_pes
MaxScans  == 2          \* how many times the caller invokes scan_pes

Seeds  == {0, 1}        \* base seeds handed to scan_pes
RepsIn == {1}           \* reps handed to scan_pes
Builders == {"build_h2", "build_lih", "build_beh2"}
AnsatzNames == {"RealAmplitudes", "EfficientSU2", "bogus"}

\* a geometry parameter as the caller writes it: a Python int or float
PyValues == { [val |-> 1, kind |-> "int"], [val |-> 2, kind |-> "float"] }

RECURSIVE SeqsUpTo(_, _)
SeqsUpTo(S, n) ==
    IF n = 0 THEN { << >> }
    ELSE LET shorter == SeqsUpTo(S, n - 1)
         IN  shorter \cup { Append(s, x) : s \in { t \in shorter : Len(t) = n - 1 }, x \in S }

\* ------------------------------------------------------- numpy conversion
\* np.array(distances): one dtype for the whole array, float64 as soon as
\* one element is a float
NpArray(list) ==
    LET anyFloat == \E k \in 1..Len(list) : list[k].kind = "float"
    IN  [k \in 1..Len(list) |->
            [val |-> list[k].val, kind |-> IF anyFloat THEN "float64" ELSE "int64"]]

\* ndarray.tolist(): numpy scalars back to Python scalars
ToList(arr) ==
    [k \in 1..Len(arr) |->
        [val |-> arr[k].val, kind |-> IF arr[k].kind = "float64" THEN "float" ELSE "int"]]

\* ------------------------------------------------------- molecule builder
H2SpatialOrbitals == 2      \* STO-3G H2: one 1s function per atom
ActiveOrbitals == 3         \* num_spatial_orbitals given to ActiveSpaceTransformer

NumSpatialOrbitals(builder) ==
    IF builder = "build_h2" THEN H2SpatialOrbitals ELSE ActiveOrbitals

\* JordanWignerMapper: one qubit per spin orbital
JordanWignerQubits(spatial) == 2 * spatial

\* nuclear repulsion energy reported by the driver (fixed-point)
NuclearRepulsion(builder, d) ==
    CASE builder = "build_h2"  -> 8 - 2 * d
      [] builder = "build_lih" -> 11 - 3 * d
      [] OTHER                 -> 15 - d

MoleculeBuilder(builder, npd) ==
    [ qubit_op |-> [mol |-> builder, d |-> npd.val,
                    num_qubits |-> JordanWignerQubits(NumSpatialOrbitals(builder))],
      nuclear_repulsion_energy |-> NuclearRepulsion(builder, npd.val) ]

NoOp == [mol |-> "none", d |-> 0, num_qubits |-> 0]

\* ------------------------------------------------------------ run_vqe parts
\* an unknown name falls through to a default topology
AnsatzSupported_default(name) == TRUE

\* the if / elif / else over ansatz_type
AnsatzSupported(name) == name \in {"RealAmplitudes", "EfficientSU2"}

\* ansatz.num_parameters: RealAmplitudes has one RY layer per repetition plus
\* one, EfficientSU2 an RY and an RZ layer
NumParameters(name, num_qubits, r) ==
    IF name = "EfficientSU2" THEN 2 * num_qubits * (r + 1) ELSE num_qubits * (r + 1)

\* rng.uniform(-pi, pi, n) of a generator in state s, on the grid -3..3
Uniform(s, n) == [j \in 1..n |-> ((s * 5 + j * 3) % 7) - 3]

\* energy_history = []
NewHistory == << >>

Abs(x) == IF x < 0 THEN -x ELSE x

RECURSIVE SumAbs(_)
SumAbs(v) == IF v = << >> THEN 0 ELSE Abs(Head(v)) + SumAbs(Tail(v))

\* NumPyMinimumEigensolver: smallest eigenvalue of the operator
ExactEigenvalue(op) == -(3 * op.num_qubits + op.d)

\* Estimator: expectation value of the operator in the ansatz state; never
\* below the smallest eigenvalue
Estimate(op, params) == ExactEigenvalue(op) + SumAbs(params)

\* COBYLA's k-th trial point (k >= 2): the best point so far moved along one
\* coordinate, the direction alternating
Propose(best, k) ==
    LET j == ((k - 2) % Len(best)) + 1
        step == IF k % 3 = 0 THEN -1 ELSE 1
    IN  [best EXCEPT ![j] = @ + step]

\* ------------------------------------------------------------ scan_pes parts
\* every point gets the base seed
PointSeed_base(base, idx) == base

\* seed=seed + i
PointSeed(base, idx) == base + idx

\* the nuclear repulsion is left out of the VQE total
VqeTotal_electronic(electronic, nuc) == electronic

\* vqe_result['energy'] + nuc_repulsion
VqeTotal(electronic, nuc) == electronic + nuc

\* exact_energy(qubit_op) + nuc_repulsion
ExactTotal(electronic, nuc) == electronic + nuc

\* abs(vqe_e - exact_e)
AbsError(a, b) == Abs(a - b)

\* insertion at the front
ListAppend_prepend(list, x) == <<x>> \o list

\* list.append
ListAppend(list, x) == Append(list, x)

\* ------------------------------------------------------------------- state
VARIABLES
    \* arguments of the scan_pes call in progress
    molecule_builder, distances_in, ansatz_type, reps, maxiter, seed,
    \* locals of scan_pes
    distances, i, qubit_op, nuc_repulsion, vqe_e,
    vqe_energies, exact_energies, errors, nuclear_repulsions,
    \* locals of run_vqe and of the optimizer it drives
    num_params, initial_point, energy_history, point, eval_count, value,
    best_value, best_point, vqe_result,
    \* control and outcome of scan_pes
    pc, result, error,
    \* observation: calls made, exceptions raised, finished run_vqe calls
    scans, builderCalls, vqeCalls, exactCalls, estCalls, cbLog, raised,
    runs, exactLog, prevRuns

args    == <<molecule_builder, distances_in, ansatz_type, reps, maxiter, seed>>
lists   == <<vqe_energies, exact_energies, errors, nuclear_repulsions>>
scanloc == <<distances, qubit_op, nuc_repulsion, vqe_e>>
vqeloc  == <<num_params, initial_point, energy_history, point, eval_count, value,
             best_value, best_point, vqe_result>>
calls   == <<builderCalls, vqeCalls, exactCalls, estCalls, cbLog>>
logs    == <<runs, exactLog, prevRuns, scans>>
vars    == <<args, lists, scanloc, vqeloc, calls, logs, i, pc, result, error, raised>>

Init ==
    /\ molecule_builder = "build_h2" /\ distances_in = << >>
    /\ ansatz_type = "RealAmplitudes" /\ reps = 1 /\ maxiter = 1 /\ seed = 0
    /\ distances = << >> /\ i = 0 /\ qubit_op = NoOp /\ nuc_repulsion = 0 /\ vqe_e = 0
    /\ vqe_energies = << >> /\ exact_energies = << >>
    /\ errors = << >> /\ nuclear_repulsions = << >>
    /\ num_params = 0 /\ initial_point = << >> /\ energy_history = << >>
    /\ point = << >> /\ eval_count = 0 /\ value = 0
    /\ best_value = 0 /\ best_point = << >> /\ vqe_result = << >>
    /\ pc = "idle" /\ result = << >> /\ error = "None"
    /\ scans = 0 /\ builderCalls = << >> /\ vqeCalls = << >> /\ exactCalls = << >>
    /\ estCalls = 0 /\ cbLog = << >> /\ raised = << >>
    /\ runs = << >> /\ exactLog = << >> /\ prevRuns = << >>

\* the process-wide generator, advanced by every earlier scan
InitialPoint_unseeded(s, n) == Uniform(s + 3 * scans, n)

\* np.random.default_rng(seed).uniform(...): a fresh generator per call
InitialPoint(s, n) == Uniform(s, n)

\* the failing point is skipped and the scan goes on
Raise_skip(err) ==
    /\ pc' = "loop"
    /\ error' = error
    /\ result' = result
    /\ i' = i + 1
    /\ raised' = Append(raised, [err |-> err, at |-> i])

\* an exception leaving scan_pes: nothing in scan_pes catches it
Raise(err) ==
    /\ pc' = "failed"
    /\ error' = err
    /\ result' = << >>
    /\ i' = i
    /\ raised' = Append(raised, [err |-> err, at |-> i])

\* the ansatz name is checked before the loop
StartLoop_validated ==
    IF ansatz_type' \in {"RealAmplitudes", "EfficientSU2"}
    THEN pc' = "loop" /\ error' = "None" /\ raised' = << >>
    ELSE pc' = "failed" /\ error' = "ValueError"
         /\ raised' = << [err |-> "ValueError", at |-> 0] >>

\* the for statement is reached without any check of the arguments
StartLoop == pc' = "loop" /\ error' = "None" /\ raised' = << >>

\* entry of scan_pes up to the for statement (lines 36-42)
EnterScan ==
    /\ distances' = NpArray(distances_in')
    /\ vqe_energies' = << >> /\ exact_energies' = << >>
    /\ errors' = << >> /\ nuclear_repulsions' = << >>
    /\ i' = 0 /\ qubit_op' = NoOp /\ nuc_repulsion' = 0 /\ vqe_e' = 0
    /\ num_params' = 0 /\ initial_point' = << >> /\ energy_history' = << >>
    /\ point' = << >> /\ eval_count' = 0 /\ value' = 0
    /\ best_value' = 0 /\ best_point' = << >> /\ vqe_result' = << >>
    /\ StartLoop /\ result' = << >>
    /\ scans' = scans + 1
    /\ builderCalls' = << >> /\ vqeCalls' = << >> /\ exactCalls' = << >>
    /\ estCalls' = 0 /\ cbLog' = << >>
    /\ runs' = << >> /\ exactLog' = << >> /\ prevRuns' = runs

\* the caller invokes scan_pes(molecule_builder, distances, ...)
ScanCall ==
    /\ pc = "idle"
    /\ molecule_builder' \in Builders
    /\ distances_in' \in SeqsUpTo(PyValues, MaxPoints)
    /\ ansatz_type' \in AnsatzNames
    /\ reps' \in RepsIn
    /\ maxiter' \in 1..MaxIter
    /\ seed' \in Seeds
    /\ EnterScan

\* the caller invokes scan_pes again with the same arguments
ScanAgain ==
    /\ pc \in {"returned", "failed"}
    /\ scans < MaxScans
    /\ UNCHANGED args
    /\ EnterScan

\* molecule_builder(d) and problem.nuclear_repulsion_energy (lines 45-46)
BuildMolecule ==
    /\ pc = "loop" /\ i < Len(distances)
    /\ builderCalls' = Append(builderCalls, [index |-> i, d |-> distances[i + 1]])
    /\ \/ LET built == MoleculeBuilder(molecule_builder, distances[i + 1])
          IN  /\ qubit_op' = built.qubit_op
              /\ nuc_repulsion' = built.nuclear_repulsion_energy
              /\ pc' = "vqe"
              /\ UNCHANGED <<i, result, error, raised>>
       \/ /\ Raise("DriverError")
          /\ UNCHANGED <<qubit_op, nuc_repulsion>>
    /\ UNCHANGED <<args, lists, distances, vqe_e, vqeloc, logs,
                   vqeCalls, exactCalls, estCalls, cbLog>>

\* run_vqe from its entry to vqe.compute_minimum_eigenvalue (lines 30-69)
RunVqeEnter ==
    /\ pc = "vqe"
    /\ vqeCalls' = Append(vqeCalls,
          [index |-> i, hamiltonian |-> qubit_op, ansatz_type |-> ansatz_type,
           reps |-> reps, maxiter |-> maxiter, seed |-> PointSeed(seed, i)])
    /\ cbLog' = << >>
    /\ IF AnsatzSupported(ansatz_type)
       THEN LET n  == NumParameters(ansatz_type, qubit_op.num_qubits, reps)
                x0 == InitialPoint(PointSeed(seed, i), n)
            IN  /\ num_params' = n
                /\ energy_history' = NewHistory
                /\ initial_point' = x0
                /\ point' = x0
                /\ best_point' = x0
                /\ eval_count' = 0 /\ value' = 0 /\ best_value' = 0
                /\ vqe_result' = << >>
                /\ pc' = "est"
                /\ UNCHANGED <<i, result, error, raised>>
       ELSE /\ Raise("ValueError")
            /\ UNCHANGED vqeloc
    /\ UNCHANGED <<args, lists, scanloc, logs, builderCalls, exactCalls, estCalls>>

\* one objective evaluation by the estimator, inside the optimizer loop
EstimatorEval ==
    /\ pc = "est"
    /\ estCalls' = estCalls + 1
    /\ \/ /\ value' = Estimate(qubit_op, point)
          /\ eval_count' = eval_count + 1
          /\ pc' = "cb"
          /\ UNCHANGED <<i, result, error, raised>>
       \/ /\ Raise("EstimatorError")
          /\ UNCHANGED <<value, eval_count>>
    /\ UNCHANGED <<args, lists, scanloc, logs, builderCalls, vqeCalls, exactCalls, cbLog,
                   num_params, initial_point, energy_history, point,
                   best_value, best_point, vqe_result>>

\* the callback records the evaluation count instead of the value
Callback_evalcount ==
    /\ pc = "cb"
    /\ cbLog' = Append(cbLog, [eval_count |-> eval_count, params |-> point, value |-> value])
    /\ energy_history' = Append(energy_history, eval_count)
    /\ pc' = "opt"
    /\ UNCHANGED <<args, lists, scanloc, logs, builderCalls, vqeCalls, exactCalls, estCalls,
                   num_params, initial_point, point, eval_count, value,
                   best_value, best_point, vqe_result, i, result, error, raised>>

\* callback(eval_count, params, value, std) (lines 51-52)
Callback ==
    /\ pc = "cb"
    /\ cbLog' = Append(cbLog, [eval_count |-> eval_count, params |-> point, value |-> value])
    /\ energy_history' = Append(energy_history, value)
    /\ pc' = "opt"
    /\ UNCHANGED <<args, lists, scanloc, logs, builderCalls, vqeCalls, exactCalls, estCalls,
                   num_params, initial_point, point, eval_count, value,
                   best_value, best_point, vqe_result, i, result, error, raised>>

\* the optimizer takes the value: keeps the better point, then stops at
\* maxiter evaluations or proposes the next trial point.  Which evaluated
\* point the library hands back is the library's rule, not run_vqe's; the
\* best one is taken here.
OptimizerStep ==
    /\ pc = "opt"
    /\ LET better == eval_count = 1 \/ value < best_value
           bp == IF better THEN point ELSE best_point
       IN  /\ best_point' = bp
           /\ best_value' = IF better THEN value ELSE best_value
           /\ IF eval_count >= maxiter
              THEN pc' = "vqe_done" /\ point' = point
              ELSE pc' = "est" /\ point' = Propose(bp, eval_count + 1)
    /\ UNCHANGED <<args, lists, scanloc, logs, calls,
                   num_params, initial_point, energy_history, eval_count, value,
                   vqe_result, i, result, error, raised>>

\* run_vqe returns its record (lines 71-77); scan_pes adds the nuclear
\* repulsion (line 53)
RunVqeReturn ==
    /\ pc = "vqe_done"
    /\ LET rec == [energy |-> best_value, optimal_params |-> best_point,
                   energy_history |-> energy_history, num_params |-> num_params,
                   ansatz_type |-> ansatz_type]
       IN  /\ vqe_result' = <<rec>>
           /\ vqe_e' = VqeTotal(rec.energy, nuc_repulsion)
           /\ runs' = Append(runs, [call |-> vqeCalls[Len(vqeCalls)],
                                    initial_point |-> initial_point,
                                    callbacks |-> Len(cbLog),
                                    result |-> rec])
    /\ pc' = "exact"
    /\ UNCHANGED <<args, lists, distances, qubit_op, nuc_repulsion, calls,
                   exactLog, prevRuns, scans,
                   num_params, initial_point, energy_history, point, eval_count, value,
                   best_value, best_point, i, result, error, raised>>

\* exact_energy(qubit_op), the error and the four appends (lines 56-66)
ExactEnergy ==
    /\ pc = "exact"
    /\ exactCalls' = Append(exactCalls, [index |-> i, hamiltonian |-> qubit_op])
    /\ \/ LET eig     == ExactEigenvalue(qubit_op)
              exact_e == ExactTotal(eig, nuc_repulsion)
              err     == AbsError(vqe_e, exact_e)
          IN  /\ vqe_energies' = ListAppend(vqe_energies, vqe_e)
              /\ exact_energies' = ListAppend(exact_energies, exact_e)
              /\ errors' = ListAppend(errors, err)
              /\ nuclear_repulsions' = ListAppend(nuclear_repulsions, nuc_repulsion)
              /\ exactLog' = Append(exactLog, eig)
              /\ i' = i + 1
              /\ pc' = "loop"
              /\ UNCHANGED <<result, error, raised>>
       \/ /\ Raise("EigensolverError")
          /\ UNCHANGED <<lists, exactLog>>
    /\ UNCHANGED <<args, scanloc, vqeloc, runs, prevRuns, scans,
                   builderCalls, vqeCalls, estCalls, cbLog>>

\* the return statement of scan_pes (lines 68-74)
ScanReturn ==
    /\ pc = "loop" /\ i = Len(distances)
    /\ result' = << [distances |-> ToList(distances),
                     vqe_energies |-> vqe_energies,
                     exact_energies |-> exact_energies,
                     errors |-> errors,
                     nuclear_repulsions |-> nuclear_repulsions] >>
    /\ pc' = "returned"
    /\ UNCHANGED <<args, lists, scanloc, vqeloc, calls, logs, i, error, raised>>

Next ==
    \/ ScanCall \/ ScanAgain \/ BuildMolecule \/ RunVqeEnter \/ EstimatorEval
    \/ Callback \/ OptimizerStep \/ RunVqeReturn \/ ExactEnergy \/ ScanReturn

Spec == Init /\ [][Next]_vars


\* ------------------------------------------------------------- properties
Supported == {"RealAmplitudes", "EfficientSU2"}
started == pc # "idle"

\* C1: a scan that returns yields five sequences as long as the input, the
\* distances equal to the input element by element (as numbers), and entry k
\* of every other sequence computed from input point k; while the scan runs
\* each of the four lists holds exactly one entry per finished point.
ScanTableInOrder ==
    /\ started =>
          /\ Len(vqe_energies) = Len(exactLog) /\ Len(exact_energies) = Len(exactLog)
          /\ Len(errors) = Len(exactLog) /\ Len(nuclear_repulsions) = Len(exactLog)
          /\ pc \in {"loop", "returned"} => Len(exactLog) = i /\ Len(runs) = i
    /\ pc = "returned" =>
          /\ result # << >>
          /\ LET t == result[1]
                 n == Len(distances_in)
             IN  /\ Len(t.distances) = n /\ Len(t.vqe_energies) = n
                 /\ Len(t.exact_energies) = n /\ Len(t.errors) = n
                 /\ Len(t.nuclear_repulsions) = n
                 /\ \A k \in 1..n :
                       LET d   == distances_in[k].val
                           nuc == NuclearRepulsion(molecule_builder, d)
                       IN  /\ t.distances[k].val = d
                           /\ runs[k].call.index = k - 1
                           /\ runs[k].call.hamiltonian.d = d
                           /\ t.nuclear_repulsions[k] = nuc
                           /\ t.vqe_energies[k] = runs[k].result.energy + nuc
                           /\ t.exact_energies[k] = exactLog[k] + nuc
                           /\ t.errors[k] = Abs(t.vqe_energies[k] - t.exact_energies[k])

ScanTableInOrderWitness ==
    /\ pc = "returned" /\ Len(distances_in) = MaxPoints
    /\ distances_in[1].val # distances_in[2].val
    /\ distances_in[1].kind # distances_in[2].kind
    /\ result[1].nuclear_repulsions[1] # result[1].nuclear_repulsions[2]

\* C2: the seed handed to run_vqe for the point of index k is base seed + k,
\* the seeds of one scan are pairwise distinct, and the points are processed
\* in input order whatever the base seed is.
SeedPerPoint ==
    /\ \A k \in 1..Len(vqeCalls) :
          /\ vqeCalls[k].index = k - 1
          /\ vqeCalls[k].seed = seed + (k - 1)
          /\ vqeCalls[k].hamiltonian.d = distances_in[k].val
    /\ \A j, k \in 1..Len(vqeCalls) : j # k => vqeCalls[j].seed # vqeCalls[k].seed
    /\ \A k \in 1..Len(builderCalls) :
          builderCalls[k].index = k - 1 /\ builderCalls[k].d.val = distances_in[k].val

SeedPerPointWitness ==
    Len(vqeCalls) = MaxPoints /\ seed = 1 /\ pc = "returned"

\* C3: run_vqe with an ansatz name other than the two supported ones raises
\* ValueError with no estimator evaluation, no callback invocation and no
\* result record.
UnsupportedAnsatzFails ==
    (ansatz_type \notin Supported /\ vqeCalls # << >>) =>
        /\ pc = "failed" /\ error = "ValueError"
        /\ estCalls = 0 /\ cbLog = << >>
        /\ vqe_result = << >> /\ runs = << >> /\ energy_history = << >>
        /\ Len(vqeCalls) = 1

UnsupportedAnsatzFailsWitness ==
    ansatz_type = "bogus" /\ vqeCalls # << >> /\ pc = "failed" /\ error = "ValueError"

\* C4: once the builder, run_vqe or exact_energy raises at the point of index
\* k, scan_pes ends with that error, returns no table, and makes no call for
\* any later point; no call is made twice for one point.
FailFast ==
    /\ raised # << >> =>
          /\ Len(raised) = 1
          /\ pc = "failed" /\ error = raised[1].err /\ result = << >>
          /\ i = raised[1].at
          /\ Len(builderCalls) = raised[1].at + 1
          /\ Len(vqeCalls) <= raised[1].at + 1
          /\ Len(exactCalls) <= raised[1].at + 1
    /\ pc = "failed" => raised # << >>
    /\ \A k \in 1..Len(builderCalls) : builderCalls[k].index = k - 1
    /\ \A k \in 1..Len(vqeCalls) : vqeCalls[k].index = k - 1
    /\ \A k \in 1..Len(exactCalls) : exactCalls[k].index = k - 1

FailFastWitness ==
    /\ pc = "failed" /\ raised[1].at = 1 /\ Len(vqe_energies) = 1
    /\ error = "EstimatorError" /\ result = << >>

\* C5: for every finished point the stored VQE total is the VQE eigenvalue
\* plus the stored nuclear repulsion, the exact total is the exact eigenvalue
\* plus the same repulsion, the repulsion is the one the builder reported,
\* and the error is the absolute difference of the totals, so it is >= 0.
TotalsAndErrors ==
    \A k \in 1..Len(nuclear_repulsions) :
        /\ nuclear_repulsions[k] =
               MoleculeBuilder(molecule_builder, builderCalls[k].d).nuclear_repulsion_energy
        /\ vqe_energies[k] = runs[k].result.energy + nuclear_repulsions[k]
        /\ exact_energies[k] = exactLog[k] + nuclear_repulsions[k]
        /\ errors[k] = Abs(vqe_energies[k] - exact_energies[k])
        /\ errors[k] >= 0

TotalsAndErrorsWitness ==
    /\ pc = "returned" /\ Len(result[1].errors) = MaxPoints
    /\ result[1].errors[1] > 0 /\ result[1].nuclear_repulsions[2] # 0

SameArguments(a, b) ==
    /\ a.hamiltonian = b.hamiltonian /\ a.ansatz_type = b.ansatz_type
    /\ a.reps = b.reps /\ a.maxiter = b.maxiter /\ a.seed = b.seed

SameOutcome(a, b) ==
    /\ a.initial_point = b.initial_point
    /\ a.result.energy = b.result.energy
    /\ a.result.energy_history = b.result.energy_history

\* C6: two run_vqe calls with the same operator, ansatz, reps, maxiter and
\* seed start from the same initial point and return the same energy and the
\* same energy history, also when the second runs after other calls.
RunVqeDeterministic ==
    /\ \A j \in 1..Len(prevRuns), k \in 1..Len(runs) :
          SameArguments(prevRuns[j].call, runs[k].call) => SameOutcome(prevRuns[j], runs[k])
    /\ \A j, k \in 1..Len(runs) :
          SameArguments(runs[j].call, runs[k].call) => SameOutcome(runs[j], runs[k])

RunVqeDeterministicWitness ==
    /\ Len(prevRuns) = MaxPoints /\ Len(runs) = MaxPoints
    /\ SameArguments(prevRuns[2].call, runs[2].call)
    /\ Len(runs[2].result.energy_history) >= 2

\* C8: build_lih and build_beh2 keep 2 electrons in 2 spatial orbitals, so
\* their qubit operator is over 4 qubits, twice the orbital count given to
\* the active-space transformer.
ActiveSpaceFourQubits ==
    qubit_op.mol \in {"build_lih", "build_beh2"} =>
        /\ NumSpatialOrbitals(qubit_op.mol) = 2
        /\ qubit_op.num_qubits = 4
        /\ qubit_op.num_qubits = 2 * NumSpatialOrbitals(qubit_op.mol)

HistoryIsCallbackValues ==
    energy_history = [k \in 1..Len(cbLog) |-> cbLog[k].value]

inRun == pc \in {"est", "cb", "opt", "vqe_done"}

\* C9: within one run_vqe call the history starts empty, every callback
\* invocation appends its objective value at the end, nothing else changes
\* the history, and the returned history has one entry per invocation, in
\* invocation order.
HistoryAppendOnly ==
    /\ [](HistoryIsCallbackValues)
    /\ [](\A k \in 1..Len(runs) :
             Len(runs[k].result.energy_history) = runs[k].callbacks)
    /\ [][(pc = "vqe" /\ pc' = "est") => energy_history' = << >>]_vars
    /\ [][inRun =>
            \/ energy_history' = energy_history /\ cbLog' = cbLog
            \/ /\ pc = "cb" /\ Len(cbLog') = Len(cbLog) + 1
               /\ energy_history' = Append(energy_history, value)]_vars
    /\ [][(pc = "vqe_done" /\ pc' = "exact") =>
            vqe_result'[1].energy_history = energy_history]_vars

HistoryAppendOnlyWitness ==
    /\ pc = "exact" /\ Len(runs) = 2
    /\ Len(vqe_result[1].energy_history) = MaxIter
    /\ vqe_result[1].energy_history[1] # vqe_result[1].energy_history[2]
    /\ Len(cbLog) = MaxIter

\* C10: a scan over an empty sequence returns five empty sequences without
\* any call of the builder, run_vqe or exact_energy and without an error,
\* whatever the ansatz name; for a non-empty sequence the unsupported name
\* is reported only after the builder of the first point has run.
EmptyScanMakesNoCall ==
    /\ (started /\ distances_in = << >>) =>
          /\ pc \in {"loop", "returned"} /\ error = "None" /\ raised = << >>
          /\ builderCalls = << >> /\ vqeCalls = << >> /\ exactCalls = << >>
          /\ estCalls = 0
          /\ pc = "returned" =>
                /\ result # << >>
                /\ result[1].distances = << >> /\ result[1].vqe_energies = << >>
                /\ result[1].exact_energies = << >> /\ result[1].errors = << >>
                /\ result[1].nuclear_repulsions = << >>
    /\ error = "ValueError" =>
          /\ distances_in # << >>
          /\ Len(builderCalls) = 1 /\ builderCalls[1].index = 0
          /\ raised[1].at = 0

EmptyScanMakesNoCallWitness ==
    pc = "returned" /\ distances_in = << >> /\ ansatz_type = "bogus"

====
